---- MODULE Spec2Model ----
(***************************************************************************)
(* State synchronisation layer of the mining UI: the status poller         *)
(* (hooks/useGetStatus.ts), the mining control actions                     *)
(* (hooks/mining/useMiningControls.ts), the telemetry and GPU toggles and  *)
(* the airdrop token refresh (useAirdropTokensRefresh).                    *)
(*                                                                         *)
(* JavaScript runs one callback at a time: every action below is one       *)
(* callback run to completion (a timer tick, a promise continuation, an    *)
(* effect flush, a user event).  Awaited commands and HTTP calls are       *)
(* messages in flight between the action that issues them and the action   *)
(* that handles their outcome.                                             *)
(***************************************************************************)
EXTENDS Integers, FiniteSets, Sequences, TLC

VARIABLES
    \* ---- domain stores written by the status poller
    appStatus,          \* useAppStatusStore: the last status object stored
    mode,               \* useAppStatusStore.mode
    cpu,                \* useCPUStatusStore
    gpu,                \* useGPUStatusStore
    baseNode,           \* useBaseNodeStatusStore
    wallet,             \* useWalletStore balance data
    \* ---- process-wide error slot (useAppStateStore.error)
    errorSlot,
    \* ---- status poller
    pollTimer,          \* TRUE while the 1000 ms interval is armed
    statusIssued,       \* number of 'status' commands issued so far
    statusPending,      \* ids of 'status' commands whose promise is unsettled
    maxWrittenId,       \* history: latest-issued request whose answer was stored
    \* ---- mining lifecycle
    miningInitiated,    \* useMiningStore.miningInitiated: the user asked to mine
    loadingPolls,       \* history: poll ticks since the loading state was entered
    \* ---- user actions: mining controls and toggles
    animationState,     \* the state last given to setAnimationState
    uiTelemetryMode,    \* useUIStore.telemetryMode
    commandsIssued,     \* number of user commands issued so far
    commandsPending,    \* user commands whose promise is unsettled
    unhandled,          \* commands / calls whose rejection no handler caught
    \* ---- airdrop token refresh
    airdropTokens,      \* useAirdropStore.airdropTokens: the held credential
    tokensVersion,      \* number of writes of airdropTokens so far
    logins,             \* number of those made by the login flow
    renderedVersion,    \* the write the last effect flush has seen
    refreshMounted,     \* the component using useAirdropTokensRefresh is mounted
    refreshTimers,      \* armed intervals: [id, tokens captured by handleRefresh]
    currentTimer,       \* the interval id held by the effect's cleanup
    clock,              \* wall clock, in steps of ClockStepMs
    fetchIssued,        \* number of refresh requests issued so far
    fetchPending,       \* refresh requests whose promise is unsettled
    tokenCmdPending,    \* 'set_airdrop_access_token' commands in flight
    tokenCmdLog,        \* history: every such command issued, in order
    \* ---- history: the callback that ran last
    lastEvent

stores == <<appStatus, mode, cpu, gpu, baseNode, wallet>>
pollVars == <<appStatus, mode, cpu, gpu, baseNode, wallet, pollTimer,
              statusIssued, statusPending, maxWrittenId, miningInitiated,
              loadingPolls>>
actionVars == <<animationState, uiTelemetryMode, commandsIssued, commandsPending>>
refreshVars == <<airdropTokens, tokensVersion, logins, renderedVersion, refreshMounted,
                 refreshTimers, currentTimer, clock, fetchIssued, fetchPending,
                 tokenCmdPending, tokenCmdLog>>
vars == <<appStatus, mode, cpu, gpu, baseNode, wallet, errorSlot, pollTimer,
          statusIssued, statusPending, maxWrittenId, miningInitiated,
          loadingPolls, animationState, uiTelemetryMode,
          commandsIssued, commandsPending, unhandled, airdropTokens,
          tokensVersion, logins, renderedVersion, refreshMounted, refreshTimers,
          currentTimer, clock, fetchIssued, fetchPending, tokenCmdPending,
          tokenCmdLog, lastEvent>>

----------------------------------------------------------------------------
(* Bounds *)

MaxPolls == 3           \* poll ticks that issue a request
MaxCommands == 3        \* user commands issued
MaxFetches == 1         \* refresh requests issued
MaxLogins == 1          \* credential writes made outside the refresh hook
MaxClock == 2           \* clock steps
StuckLimit == 2         \* poll intervals after which a loading state counts as stuck

----------------------------------------------------------------------------
(* Values *)

\* undefined / null
Null == [null |-> TRUE]

\* What the backend can answer to 'status'.  SnapA is the scenario of the
\* specification; SnapB differs from it in every sub-part.
SnapA == [mode |-> "Eco", cpu |-> [is_mining |-> TRUE], gpu |-> [is_mining |-> FALSE],
          base_node |-> [block_height |-> 1], wallet_balance |-> 500,
          gpu_mining_enabled |-> TRUE]
SnapB == [mode |-> "Ludicrous", cpu |-> [is_mining |-> FALSE], gpu |-> [is_mining |-> TRUE],
          base_node |-> [block_height |-> 2], wallet_balance |-> 0,
          gpu_mining_enabled |-> FALSE]
SnapC == [mode |-> "Eco", cpu |-> [is_mining |-> TRUE], gpu |-> [is_mining |-> TRUE],
          base_node |-> [block_height |-> 2], wallet_balance |-> 500,
          gpu_mining_enabled |-> TRUE]
Snapshots == {SnapA, SnapB, SnapC}

\* A command may also resolve with no value.
StatusResults == Snapshots \cup {Null}

\* The stores before the first poll.
InitialStatus == [mode |-> "Eco", cpu |-> [is_mining |-> FALSE], gpu |-> [is_mining |-> FALSE],
                  base_node |-> [block_height |-> 0], wallet_balance |-> 0,
                  gpu_mining_enabled |-> TRUE]

\* Rejection values: the bridge rejects with a string, a failing call inside
\* the bridge rejects with an Error object.
ErrString == [type |-> "string", msg |-> "command failed"]
ErrObject == [type |-> "Error", msg |-> "ipc unavailable"]
Errors == {ErrString, ErrObject}

\* e.toString()
toString(e) == IF e.type = "Error" THEN "Error: " \o e.msg ELSE e.msg

NoError == ""

\* if (status), if (airdropTokens): an object is truthy, undefined is not
Truthy(obj) == obj # Null

\* args?.isPause as a condition: undefined (no args, or no such field) is falsy
IsPause(args) == IF "isPause" \in DOMAIN args THEN args.isPause ELSE FALSE

\* airdropTokens?.expiresAt as a number: undefined is falsy, as 0 is
ExpiresAt(tokens) == IF "expiresAt" \in DOMAIN tokens THEN tokens.expiresAt ELSE 0

NoEvent == [kind |-> "none"]

\* The arguments stop() is called with.
StopArgs == {Null, [isPause |-> TRUE], [isPause |-> FALSE]}

\* Credentials: expiresAt is in seconds.
CredA == [token |-> "t1", refreshToken |-> "r1", expiresAt |-> 1]
CredB == [token |-> "t2", refreshToken |-> "r2", expiresAt |-> 2]
CredC == [token |-> "t3", refreshToken |-> "r3", expiresAt |-> 4]
Credentials == {CredA, CredB}

ClockStepMs == 1000
\* new Date(): milliseconds
NowMs == clock * ClockStepMs

\* What the refresh endpoint can answer: a fresh credential, an error body
\* that is JSON, an error page that is not.
HttpResponses ==
    {[status |-> 200, json |-> TRUE, body |-> CredC],
     [status |-> 401, json |-> TRUE, body |-> [message |-> "Unauthorized"]],
     [status |-> 502, json |-> FALSE, body |-> Null]}

----------------------------------------------------------------------------
(* Store setters *)

setAppStatus(s) == s
setCPUStatus(s) == s
setGPUStatus(s) == s
setBaseNodeStatus(s) == s
setBalanceData(b) == b
setMode(m) == m
setError(msg) == msg
setAnimationState(s) == s
toggleTelemetryMode(b) == ~b
setAirdropTokens(data) == data

----------------------------------------------------------------------------
(* Status poller: useGetStatus *)

\* A handler that forgets the wallet store.
StatusThen_SkipsWallet(status) ==
    /\ IF Truthy(status)
         THEN /\ appStatus' = setAppStatus(status)
              /\ cpu' = setCPUStatus(status.cpu)
              /\ gpu' = setGPUStatus(status.gpu)
              /\ baseNode' = setBaseNodeStatus(status.base_node)
              /\ mode' = setMode(status.mode)
              /\ UNCHANGED wallet
         ELSE UNCHANGED stores
    /\ UNCHANGED errorSlot

\* .then((status) => { if (status) { ...six setters... } })
StatusThen(status) ==
    /\ IF Truthy(status)
         THEN /\ appStatus' = setAppStatus(status)
              /\ cpu' = setCPUStatus(status.cpu)
              /\ gpu' = setGPUStatus(status.gpu)
              /\ baseNode' = setBaseNodeStatus(status.base_node)
              /\ wallet' = setBalanceData(status.wallet_balance)
              /\ mode' = setMode(status.mode)
         ELSE UNCHANGED stores
    /\ UNCHANGED errorSlot

\* A failure handler that also marks both miners as stopped.
StatusCatch_ClearsMining(e) ==
    /\ errorSlot' = setError(toString(e))
    /\ cpu' = setCPUStatus([is_mining |-> FALSE])
    /\ gpu' = setGPUStatus([is_mining |-> FALSE])
    /\ UNCHANGED <<appStatus, mode, baseNode, wallet>>

\* A failure handler that only logs.
StatusCatch_LogsOnly(e) ==
    /\ UNCHANGED errorSlot
    /\ UNCHANGED stores

\* .catch((e) => { console.error(...); setError(e.toString()); })
StatusCatch(e) ==
    /\ errorSlot' = setError(toString(e))
    /\ UNCHANGED stores

\* const isMining = isCPUMining || isGPUMining;
\* const isMiningLoading = (isMining && !isMiningInitiated)
\*                          || (isMiningInitiated && !isMining);
isMiningLoading(initiated, cpuStatus, gpuStatus) ==
    LET isMining == cpuStatus.is_mining \/ gpuStatus.is_mining IN
    (isMining /\ ~initiated) \/ (initiated /\ ~isMining)

\* useInterval(() => invokeStatus(), INTERVAL): one tick; invokeStatus issues
\* the command and returns without waiting for the answer.
PollTick ==
    /\ pollTimer
    /\ statusIssued < MaxPolls
    /\ statusIssued' = statusIssued + 1
    /\ statusPending' = statusPending \cup {statusIssued + 1}
    /\ loadingPolls' = IF isMiningLoading(miningInitiated, cpu, gpu)
                         THEN loadingPolls + 1 ELSE 0
    /\ lastEvent' = [kind |-> "pollTick", id |-> statusIssued + 1]
    /\ UNCHANGED <<stores, errorSlot, pollTimer, maxWrittenId, miningInitiated,
                   actionVars, unhandled, refreshVars>>

\* A handler that drops the answer to a request issued before the one whose
\* answer is in the stores.
StatusResolved_DropsStale ==
    \E id \in statusPending, status \in StatusResults :
        /\ IF id < maxWrittenId
             THEN UNCHANGED <<stores, errorSlot>>
             ELSE StatusThen(status)
        /\ statusPending' = statusPending \ {id}
        /\ maxWrittenId' = IF Truthy(status) /\ id > maxWrittenId THEN id
                            ELSE maxWrittenId
        /\ loadingPolls' = IF isMiningLoading(miningInitiated, cpu', gpu')
                             THEN loadingPolls ELSE 0
        /\ lastEvent' = [kind |-> "statusOk", id |-> id, status |-> status]
        /\ UNCHANGED <<pollTimer, statusIssued, miningInitiated, actionVars,
                       unhandled, refreshVars>>

\* The promise of a 'status' command is fulfilled, in whatever order the
\* backend answers: the .then runs with the answer.
StatusResolved ==
    \E id \in statusPending, status \in StatusResults :
        /\ StatusThen(status)
        /\ statusPending' = statusPending \ {id}
        /\ maxWrittenId' = IF Truthy(status) /\ id > maxWrittenId THEN id
                            ELSE maxWrittenId
        /\ loadingPolls' = IF isMiningLoading(miningInitiated, cpu', gpu')
                             THEN loadingPolls ELSE 0
        /\ lastEvent' = [kind |-> "statusOk", id |-> id, status |-> status]
        /\ UNCHANGED <<pollTimer, statusIssued, miningInitiated, actionVars,
                       unhandled, refreshVars>>

StatusRejected ==
    \E id \in statusPending, e \in Errors :
        /\ StatusCatch(e)
        /\ statusPending' = statusPending \ {id}
        /\ lastEvent' = [kind |-> "statusFail", id |-> id, error |-> e]
        /\ UNCHANGED <<pollTimer, statusIssued, maxWrittenId, miningInitiated,
                       loadingPolls, actionVars, unhandled, refreshVars>>

\* Teardown of the component that uses the hook: useInterval cancels.
PollUnmount ==
    /\ pollTimer
    /\ pollTimer' = FALSE
    /\ lastEvent' = [kind |-> "pollUnmount"]
    /\ UNCHANGED <<stores, errorSlot, statusIssued, statusPending, maxWrittenId,
                   miningInitiated, loadingPolls, actionVars, unhandled,
                   refreshVars>>

PollNext == PollTick \/ StatusResolved \/ StatusRejected \/ PollUnmount

\* The user asks to start or to stop mining: the intent flag flips.  The
\* controls are disabled while the loading state lasts.
SetMiningInitiated ==
    /\ ~isMiningLoading(miningInitiated, cpu, gpu)
    /\ miningInitiated' = ~miningInitiated
    /\ loadingPolls' = 0
    /\ lastEvent' = [kind |-> "setMiningInitiated", value |-> ~miningInitiated]
    /\ UNCHANGED <<stores, errorSlot, pollTimer, statusIssued, statusPending,
                   maxWrittenId, actionVars, unhandled, refreshVars>>

----------------------------------------------------------------------------
(* Mining controls: useMiningControls *)

\* invoke(cmd, args): the command is in flight until its promise settles.
invoke(cmd, args) ==
    /\ commandsIssued < MaxCommands
    /\ commandsIssued' = commandsIssued + 1
    /\ commandsPending' = commandsPending \cup
            {[id |-> commandsIssued + 1, cmd |-> cmd, args |-> args]}
    /\ lastEvent' = [kind |-> "invoke", id |-> commandsIssued + 1, cmd |-> cmd]

Settle(c) == commandsPending' = commandsPending \ {c}

\* handleStart, .then(async () => { setAnimationState('start') })
StartThen ==
    /\ animationState' = setAnimationState("start")
    /\ UNCHANGED errorSlot

\* handleStart, .catch((e) => { console.error(e); setAnimationState('stop') }).
\* The rejection is consumed here: the promise that handleStart awaits
\* resolves, so the catch block around the await (the one that calls
\* setError) is entered only if this handler itself throws, which logging and
\* setting the animation state are taken not to do.
StartCatch(e) ==
    /\ animationState' = setAnimationState("stop")
    /\ UNCHANGED errorSlot

\* A success handler that ignores isPause.
StopThen_IgnoresPause(args) ==
    /\ animationState' = setAnimationState("stop")
    /\ UNCHANGED errorSlot

\* handleStop, .then(async () => { setAnimationState(args?.isPause ? 'pause' : 'stop') })
StopThen(args) ==
    /\ animationState' =
          setAnimationState(IF IsPause(args) THEN "pause" ELSE "stop")
    /\ UNCHANGED errorSlot

\* handleStop, .catch((e) => { console.error(e); setAnimationState('start') })
StopCatch(e) ==
    /\ animationState' = setAnimationState("start")
    /\ UNCHANGED errorSlot

\* start(): up to the await
StartMining ==
    /\ invoke("start_mining", Null)
    /\ UNCHANGED <<animationState, uiTelemetryMode, errorSlot, unhandled, pollVars,
                   refreshVars>>

\* stop(args): up to the await
StopMining ==
    \E args \in StopArgs :
        /\ invoke("stop_mining", args)
        /\ UNCHANGED <<animationState, uiTelemetryMode, errorSlot, unhandled,
                       pollVars, refreshVars>>

StartResolved ==
    \E c \in commandsPending :
        /\ c.cmd = "start_mining"
        /\ StartThen
        /\ Settle(c)
        /\ lastEvent' = [kind |-> "startOk", id |-> c.id]
        /\ UNCHANGED <<uiTelemetryMode, commandsIssued, unhandled, pollVars, refreshVars>>

StartRejected ==
    \E c \in commandsPending, e \in Errors :
        /\ c.cmd = "start_mining"
        /\ StartCatch(e)
        /\ Settle(c)
        /\ lastEvent' = [kind |-> "startFail", id |-> c.id, error |-> e]
        /\ UNCHANGED <<uiTelemetryMode, commandsIssued, unhandled, pollVars, refreshVars>>

StopResolved ==
    \E c \in commandsPending :
        /\ c.cmd = "stop_mining"
        /\ StopThen(c.args)
        /\ Settle(c)
        /\ lastEvent' = [kind |-> "stopOk", id |-> c.id, args |-> c.args]
        /\ UNCHANGED <<uiTelemetryMode, commandsIssued, unhandled, pollVars, refreshVars>>

StopRejected ==
    \E c \in commandsPending, e \in Errors :
        /\ c.cmd = "stop_mining"
        /\ StopCatch(e)
        /\ Settle(c)
        /\ lastEvent' = [kind |-> "stopFail", id |-> c.id, args |-> c.args, error |-> e]
        /\ UNCHANGED <<uiTelemetryMode, commandsIssued, unhandled, pollVars, refreshVars>>

----------------------------------------------------------------------------
(* Toggles: AirdropPermissionSettings.handleChange, GpuMiningMarkup *)

\* handleChange: toggleTelemetryMode(); invoke('set_telemetry_mode', ...)
ToggleTelemetry ==
    /\ uiTelemetryMode' = toggleTelemetryMode(uiTelemetryMode)
    /\ invoke("set_telemetry_mode", [telemetryMode |-> ~uiTelemetryMode])
    /\ UNCHANGED <<animationState, errorSlot, unhandled, pollVars, refreshVars>>

\* handleGpuMiningEnabled: await invoke('set_gpu_mining_enabled', ...)
ToggleGpuMining ==
    /\ invoke("set_gpu_mining_enabled", [enabled |-> ~appStatus.gpu_mining_enabled])
    /\ UNCHANGED <<animationState, uiTelemetryMode, errorSlot, unhandled, pollVars,
                   refreshVars>>

\* Neither toggle attaches a continuation to a fulfilled promise.
ToggleResolved ==
    \E c \in commandsPending :
        /\ c.cmd \in {"set_telemetry_mode", "set_gpu_mining_enabled"}
        /\ Settle(c)
        /\ lastEvent' = [kind |-> "toggleOk", id |-> c.id, cmd |-> c.cmd]
        /\ UNCHANGED <<animationState, uiTelemetryMode, commandsIssued, errorSlot,
                       unhandled, pollVars, refreshVars>>

\* Neither toggle attaches a rejection handler: handleChange drops the promise,
\* handleGpuMiningEnabled awaits it outside any try, so its own promise
\* rejects and the switch's onChange drops that one.
ToggleRejected ==
    \E c \in commandsPending, e \in Errors :
        /\ c.cmd \in {"set_telemetry_mode", "set_gpu_mining_enabled"}
        /\ Settle(c)
        /\ unhandled' = unhandled \cup {c.cmd}
        /\ lastEvent' = [kind |-> "toggleFail", id |-> c.id, cmd |-> c.cmd,
                         args |-> c.args, error |-> e]
        /\ UNCHANGED <<animationState, uiTelemetryMode, commandsIssued, errorSlot,
                       pollVars, refreshVars>>

ActionsNext ==
    \/ StartMining \/ StopMining
    \/ StartResolved \/ StartRejected \/ StopResolved \/ StopRejected
    \/ ToggleTelemetry \/ ToggleGpuMining \/ ToggleResolved \/ ToggleRejected

----------------------------------------------------------------------------
(* Airdrop token refresh: useAirdropTokensRefresh *)

\* const expired = airdropTokens?.expiresAt
\*                 && new Date(airdropTokens?.expiresAt * 1000) > new Date()
expired(tokens, now) ==
    /\ ExpiresAt(tokens) # 0
    /\ ExpiresAt(tokens) * 1000 > now

\* if (airdropTokens && expired) fetch(...)
ShouldRefresh(tokens, now) == Truthy(tokens) /\ expired(tokens, now)

setInterval(timers, id, tokens) == timers \cup {[id |-> id, tokens |-> tokens]}
clearInterval(timers, id) == {tm \in timers : tm.id # id}

\* An effect that returns no cleanup: the previous interval stays armed.
RearmTimer_NoCancel(timers, current, id, tokens) == setInterval(timers, id, tokens)

\* The interval effect when handleRefresh has changed: the cleanup of the
\* previous run clears its interval, then a new one is armed with the new
\* handleRefresh, which has captured the credential of this render.
RearmTimer(timers, current, id, tokens) ==
    setInterval(clearInterval(timers, current), id, tokens)

\* The interval effect's cleanup at unmount.
CleanupTimer(timers, current) == clearInterval(timers, current)

\* An effect without the early return: it invokes the command with whatever
\* token it finds.
PropagateToken_NoGuard(pending, id, tokens) ==
    pending \cup {[id |-> id,
                   token |-> IF "token" \in DOMAIN tokens THEN tokens.token
                             ELSE "undefined"]}

\* The access token effect: if (!airdropTokens) return; invoke(...)
PropagateToken(pending, id, tokens) ==
    IF Truthy(tokens)
      THEN pending \cup {[id |-> id,
                          token |-> IF "token" \in DOMAIN tokens THEN tokens.token
                                    ELSE "undefined"]}
      ELSE pending

\* The history of issued commands after the pending set went from old to new
\* (an effect run issues at most one).
Logged(log, old, new) ==
    IF new \subseteq old THEN log ELSE Append(log, CHOOSE c \in new \ old : TRUE)

\* A write of the held credential
WriteTokens(data) ==
    /\ airdropTokens' = setAirdropTokens(data)
    /\ tokensVersion' = tokensVersion + 1

\* One firing of an armed interval: handleRefresh as captured when it was armed.
RefreshTick ==
    \E tm \in refreshTimers :
        LET req == ShouldRefresh(tm.tokens, NowMs) IN
        /\ req => fetchIssued < MaxFetches
        /\ IF req
             THEN /\ fetchIssued' = fetchIssued + 1
                  /\ fetchPending' = fetchPending \cup
                        {[id |-> fetchIssued + 1, refreshToken |-> tm.tokens.refreshToken]}
             ELSE UNCHANGED <<fetchIssued, fetchPending>>
        /\ lastEvent' = [kind |-> "refreshTick", timer |-> tm.id, now |-> NowMs,
                         mounted |-> refreshMounted, held |-> airdropTokens,
                         sent |-> IF req THEN {tm.tokens.refreshToken} ELSE {}]
        /\ UNCHANGED <<airdropTokens, tokensVersion, logins, renderedVersion, refreshMounted,
                       refreshTimers, currentTimer, clock, tokenCmdPending, tokenCmdLog,
                       errorSlot, unhandled, pollVars, actionVars>>

\* The HTTP response arrives: .then(response => response.json())
\*                            .then((data) => { setAirdropTokens(data) })
\* response.ok and response.status are not looked at; a body that is not JSON
\* makes response.json() reject, and the chain has no rejection handler.
FetchResponded ==
    \E f \in fetchPending, r \in HttpResponses :
        /\ fetchPending' = fetchPending \ {f}
        /\ IF r.json
             THEN WriteTokens(r.body) /\ UNCHANGED unhandled
             ELSE /\ unhandled' = unhandled \cup {"refresh"}
                  /\ UNCHANGED <<airdropTokens, tokensVersion>>
        /\ lastEvent' = [kind |-> "fetchDone", id |-> f.id, response |-> r,
                         before |-> airdropTokens]
        /\ UNCHANGED <<logins, renderedVersion, refreshMounted, refreshTimers,
                       currentTimer, clock, fetchIssued, tokenCmdPending, tokenCmdLog, errorSlot,
                       pollVars, actionVars>>

\* The request fails on the network: fetch rejects, nothing handles it.
FetchFailed ==
    \E f \in fetchPending, e \in Errors :
        /\ fetchPending' = fetchPending \ {f}
        /\ unhandled' = unhandled \cup {"refresh"}
        /\ lastEvent' = [kind |-> "fetchFail", id |-> f.id, before |-> airdropTokens]
        /\ UNCHANGED <<airdropTokens, tokensVersion, logins, renderedVersion, refreshMounted,
                       refreshTimers, currentTimer, clock, fetchIssued,
                       tokenCmdPending, tokenCmdLog, errorSlot, pollVars, actionVars>>

\* The effects after the render that a write of airdropTokens causes: both
\* effects depend on it (the first through handleRefresh).
RefreshEffects ==
    /\ refreshMounted
    /\ renderedVersion # tokensVersion
    /\ refreshTimers' = RearmTimer(refreshTimers, currentTimer, tokensVersion, airdropTokens)
    /\ currentTimer' = tokensVersion
    /\ tokenCmdPending' = PropagateToken(tokenCmdPending, tokensVersion, airdropTokens)
    /\ tokenCmdLog' = Logged(tokenCmdLog, tokenCmdPending, tokenCmdPending')
    /\ renderedVersion' = tokensVersion
    /\ lastEvent' = [kind |-> "effects", version |-> tokensVersion]
    /\ UNCHANGED <<airdropTokens, tokensVersion, logins, refreshMounted, clock,
                   fetchIssued, fetchPending, errorSlot, unhandled, pollVars,
                   actionVars>>

\* Teardown: the cleanup of the interval effect runs.
RefreshUnmount ==
    /\ refreshMounted
    /\ refreshMounted' = FALSE
    /\ refreshTimers' = CleanupTimer(refreshTimers, currentTimer)
    /\ lastEvent' = [kind |-> "refreshUnmount"]
    /\ UNCHANGED <<airdropTokens, tokensVersion, logins, renderedVersion, currentTimer, clock,
                   fetchIssued, fetchPending, tokenCmdPending, tokenCmdLog, errorSlot, unhandled,
                   pollVars, actionVars>>

\* 'set_airdrop_access_token' settles: fulfilled, or rejected into the .catch
\* that logs it.
TokenCmdResolved ==
    \E c \in tokenCmdPending :
        /\ tokenCmdPending' = tokenCmdPending \ {c}
        /\ lastEvent' = [kind |-> "tokenCmdOk", id |-> c.id]
        /\ UNCHANGED <<airdropTokens, tokensVersion, logins, renderedVersion, refreshMounted,
                       refreshTimers, currentTimer, clock, fetchIssued, fetchPending,
                       tokenCmdLog, errorSlot, unhandled, pollVars, actionVars>>

TokenCmdRejected ==
    \E c \in tokenCmdPending, e \in Errors :
        /\ tokenCmdPending' = tokenCmdPending \ {c}
        /\ lastEvent' = [kind |-> "tokenCmdFail", id |-> c.id]
        /\ UNCHANGED <<airdropTokens, tokensVersion, logins, renderedVersion, refreshMounted,
                       refreshTimers, currentTimer, clock, fetchIssued, fetchPending,
                       tokenCmdLog, errorSlot, unhandled, pollVars, actionVars>>

\* The login flow, outside this hook, acquires a credential.
Login ==
    \E c \in Credentials :
        /\ logins < MaxLogins
        /\ logins' = logins + 1
        /\ WriteTokens(c)
        /\ lastEvent' = [kind |-> "login", tokens |-> c]
        /\ UNCHANGED <<renderedVersion, refreshMounted, refreshTimers, currentTimer,
                       clock, fetchIssued, fetchPending, tokenCmdPending, tokenCmdLog, errorSlot,
                       unhandled, pollVars, actionVars>>

\* Time passes.
ClockAdvance ==
    /\ clock < MaxClock
    /\ clock' = clock + 1
    /\ lastEvent' = [kind |-> "clock", now |-> (clock + 1) * ClockStepMs]
    /\ UNCHANGED <<airdropTokens, tokensVersion, logins, renderedVersion, refreshMounted,
                   refreshTimers, currentTimer, fetchIssued, fetchPending,
                   tokenCmdPending, tokenCmdLog, errorSlot, unhandled, pollVars, actionVars>>

RefreshNext ==
    \/ RefreshTick \/ FetchResponded \/ FetchFailed \/ RefreshEffects
    \/ RefreshUnmount \/ TokenCmdResolved \/ TokenCmdRejected \/ Login
    \/ ClockAdvance

----------------------------------------------------------------------------

Init ==
    /\ appStatus = InitialStatus
    /\ mode = InitialStatus.mode
    /\ cpu = InitialStatus.cpu
    /\ gpu = InitialStatus.gpu
    /\ baseNode = InitialStatus.base_node
    /\ wallet = InitialStatus.wallet_balance
    /\ errorSlot = NoError
    /\ pollTimer = TRUE
    /\ statusIssued = 0
    /\ statusPending = {}
    /\ maxWrittenId = 0
    /\ miningInitiated = FALSE
    /\ loadingPolls = 0
    /\ animationState = "none"
    /\ uiTelemetryMode = FALSE
    /\ commandsIssued = 0
    /\ commandsPending = {}
    /\ unhandled = {}
    /\ airdropTokens \in {Null} \cup Credentials
    /\ tokensVersion = 0
    /\ logins = 0
    /\ renderedVersion = 0
    /\ refreshMounted = TRUE
    /\ refreshTimers = setInterval({}, 0, airdropTokens)
    /\ currentTimer = 0
    /\ clock = 0
    /\ fetchIssued = 0
    /\ fetchPending = {}
    /\ tokenCmdPending = PropagateToken({}, 0, airdropTokens)
    /\ tokenCmdLog = Logged(<<>>, {}, tokenCmdPending)
    /\ lastEvent = NoEvent

Next == PollNext \/ SetMiningInitiated \/ ActionsNext \/ RefreshNext

Spec == Init /\ [][Next]_vars

\* The three parts share no state but the error slot and the history: each is
\* explored on its own.
SpecPoll == Init /\ [][PollNext]_vars
SpecActions == Init /\ [][ActionsNext]_vars
SpecRefresh == Init /\ [][RefreshNext]_vars
\* The poller together with the user's intent to mine.
SpecLoading == Init /\ [][PollNext \/ SetMiningInitiated]_vars

----------------------------------------------------------------------------
(* Properties *)

\* C1: handling the failure of a 'status' command leaves the six domain
\* stores (app status, mode, CPU, GPU, base node, wallet) exactly as they
\* were before the failure was handled, whatever was issued or handled before.
C1_FailedPollKeepsStores ==
    [][lastEvent'.kind = "statusFail" => stores' = stores]_vars

\* A failure handled after a snapshot was stored, with another request
\* still in flight.
C1_Witness ==
    /\ lastEvent.kind = "statusFail"
    /\ appStatus = SnapB
    /\ statusPending # {}

\* C2: once the response carrying snapshot S has been handled, mode, CPU,
\* GPU, base node and wallet stores each hold their sub-part of S.
C2_SnapshotWrittenWhole ==
    (lastEvent.kind = "statusOk" /\ Truthy(lastEvent.status)) =>
        /\ mode = lastEvent.status.mode
        /\ cpu = lastEvent.status.cpu
        /\ gpu = lastEvent.status.gpu
        /\ baseNode = lastEvent.status.base_node
        /\ wallet = lastEvent.status.wallet_balance

\* SnapA handled for the first request after a later request was answered.
C2_Witness ==
    /\ lastEvent.kind = "statusOk"
    /\ lastEvent.status = SnapA
    /\ lastEvent.id = 1
    /\ statusIssued >= 2
    /\ 2 \notin statusPending
    /\ wallet = 500

\* C3: on a refresh tick with a held credential whose expiry is strictly in
\* the future, no refresh request is issued.
C3_NoRefreshBeforeExpiry ==
    (/\ lastEvent.kind = "refreshTick"
     /\ lastEvent.held \in Credentials \cup {CredC}
     /\ lastEvent.held.expiresAt * 1000 > lastEvent.now)
        => lastEvent.sent = {}

\* C4: on a refresh tick with a held credential whose expiry is at or before
\* the current time, exactly one refresh request is issued, carrying the held
\* refresh token.
C4_RefreshWhenExpired ==
    (/\ lastEvent.kind = "refreshTick"
     /\ lastEvent.held \in Credentials \cup {CredC}
     /\ lastEvent.held.expiresAt * 1000 <= lastEvent.now)
        => lastEvent.sent = {lastEvent.held.refreshToken}

\* C5: after a refresh call has been handled the held credential is the
\* response payload if the call succeeded (HTTP 200) and is what it was
\* before if the call failed (network error or non-success response).
C5_CredentialReplacedOnlyOnSuccess ==
    /\ lastEvent.kind = "fetchFail" => airdropTokens = lastEvent.before
    /\ lastEvent.kind = "fetchDone" =>
          airdropTokens = IF lastEvent.response.status = 200
                            THEN lastEvent.response.body
                            ELSE lastEvent.before

\* C6: after start() has completed on a failed 'start_mining', the animation
\* state is 'stop' and the error slot is not empty.
C6_FailedStartSurfaced ==
    lastEvent.kind = "startFail" =>
        (animationState = "stop" /\ errorSlot # NoError)

\* C7: after stop(args) has completed, the animation state is 'pause' if the
\* command succeeded and isPause was true, 'stop' if it succeeded and isPause
\* was false or absent, 'start' if it failed.
C7_StopOutcome ==
    /\ lastEvent.kind = "stopOk" =>
          animationState = IF lastEvent.args = [isPause |-> TRUE] THEN "pause"
                           ELSE "stop"
    /\ lastEvent.kind = "stopFail" => animationState = "start"

\* stop({isPause: true}) succeeded while another command was still in flight.
C7_Witness ==
    /\ lastEvent.kind = "stopOk"
    /\ lastEvent.args = [isPause |-> TRUE]
    /\ animationState = "pause"
    /\ commandsPending # {}

\* C8: once the refresh component is torn down no interval stays armed and
\* handleRefresh is not invoked again, however many times the credential
\* changed (and the interval was re-armed) before.
C8_NoTickAfterTeardown ==
    /\ ~refreshMounted => refreshTimers = {}
    /\ lastEvent.kind = "refreshTick" => lastEvent.mounted

\* Torn down after two credential changes had each re-armed the interval,
\* and time has passed since.
C8_Witness ==
    /\ ~refreshMounted
    /\ currentTimer = 2
    /\ {1, 2} \subseteq {c.id : c \in tokenCmdPending}
    /\ lastEvent.kind = "clock"

\* C9: no rejection of a command or of the refresh call goes unhandled.
C9_NoUnhandledRejection == unhandled = {}

\* C10 as stated: handling the failure of a 'status' command leaves the
\* error slot as it was.
C10_FailedPollSilent ==
    [][lastEvent'.kind = "statusFail" => errorSlot' = errorSlot]_vars

\* C10 as the code has it: once the failure of a 'status' command has been
\* handled, the error slot holds the string form of the error.
C10_FailedPollSurfaced ==
    lastEvent.kind = "statusFail" =>
        /\ lastEvent.error = ErrString => errorSlot = "command failed"
        /\ lastEvent.error = ErrObject => errorSlot = "Error: ipc unavailable"
        /\ errorSlot # NoError

\* An Error object rejected the poll and its text is in the slot.
C10_Witness ==
    /\ lastEvent.kind = "statusFail"
    /\ lastEvent.error = ErrObject
    /\ errorSlot = "Error: ipc unavailable"

C12_FailedToggleRolledBack ==
    lastEvent.kind = "toggleFail" =>
        /\ errorSlot # NoError
        /\ lastEvent.cmd = "set_telemetry_mode" =>
              uiTelemetryMode = ~lastEvent.args.telemetryMode

\* C13: a loading state that has lasted more than StuckLimit poll intervals
\* has been reported through the error slot.
C13_LoadingResolvesOrStuck ==
    loadingPolls > StuckLimit => errorSlot # NoError

\* C14: once a status poll has stored a snapshot, the app status, mode, CPU,
\* GPU, base node and wallet stores hold the sub-parts of one snapshot, in
\* every state between two callbacks.
C14_StoresOfOneSnapshot ==
    maxWrittenId > 0 =>
        \E S \in Snapshots :
            /\ appStatus = S
            /\ mode = S.mode
            /\ cpu = S.cpu
            /\ gpu = S.gpu
            /\ baseNode = S.base_node
            /\ wallet = S.wallet_balance

\* Between a tick and its answer, after two answers had been stored.
C14_Witness ==
    /\ maxWrittenId >= 2
    /\ lastEvent.kind = "pollTick"
    /\ appStatus = SnapB
    /\ wallet = 0

\* C15 as stated: the answer to a request issued before the one whose answer
\* is in the stores leaves the stores as they are.
C15_NoOlderSnapshot ==
    [][(lastEvent'.kind = "statusOk" /\ lastEvent'.id < maxWrittenId)
          => stores' = stores]_vars

\* C15 as the code has it: the answer to a request issued before the one
\* whose answer was in the stores, when it carries a snapshot, is stored like
\* any other: the last answer handled wins.
C15_LastHandledWins ==
    (/\ lastEvent.kind = "statusOk"
     /\ Truthy(lastEvent.status)
     /\ lastEvent.id < maxWrittenId) =>
        /\ appStatus = lastEvent.status
        /\ cpu = lastEvent.status.cpu
        /\ gpu = lastEvent.status.gpu

\* The answer to request 1, SnapA, has replaced what the answer to request 2
\* had stored.
C15_Witness ==
    /\ lastEvent.kind = "statusOk"
    /\ lastEvent.id = 1
    /\ maxWrittenId = 2
    /\ lastEvent.status = SnapA
    /\ appStatus = SnapA

====
